---- MODULE Spec2Model ----
(***************************************************************************)
(* The OECD ingestion handler (src/handler.py): lambda_handler iterates    *)
(* the configured datasets; for each it fetches a payload (fetch_oecd,     *)
(* http_get), and put_if_new consults the DynamoDB ledger and writes the   *)
(* payload to S3.  Every call to an external service (urlopen, get_item,   *)
(* put_item, put_object) is one step, so that invocations interleave at    *)
(* the places where the code can be preempted by another invocation.       *)
(***************************************************************************)
EXTENDS Integers, Sequences, FiniteSets, TLC

\* ------------------------------------------------------------------ bounds
MaxRuns == 3
MaxTime == 1

\* ------------------------------------------------------- program constants
Retries == 3
BackoffBase == 2
MinBody == 32
StatusOk == 200
StatusMulti == 207

Invocations == {1, 2}

\* The HTTP error statuses a server may answer with.
HttpCodes == {400, 404, 429, 500, 502, 503, 504}
TransientCodes == {429, 500, 502, 503, 504}

\* Response bodies: a byte string is its length and its content's identity.
Blobs ==
    { [len |-> 0,  id |-> 0], [len |-> 31, id |-> 1],
      [len |-> 32, id |-> 1], [len |-> 40, id |-> 2] }
NoBlob == [len |-> 0, id |-> 0]

\* What one urlopen() call can do, for a server answering with `codes' over
\* a network that fails (io) or does not.
Responses(codes, io) ==
    [kind : {"ok"}, code : {StatusOk}, body : Blobs]
      \cup [kind : {"HTTPError"}, code : codes, body : {NoBlob}]
      \cup (IF io THEN [kind : {"URLError"}, code : {0}, body : {NoBlob}] ELSE {})

\* What one boto3 call can do.
ServiceOutcomes == {"ok", "ClientError"}

\* ------------------------------------------------------------ configuration
S3_PREFIX == "oecd/raw"
FORMAT == "csv"
GZIP == TRUE
KeyPath(ds) == "all"

\* OECD_KEYS_JSON as the environment may hold it: an (empty) object, text that
\* is not JSON, JSON that is not an object.
KeysJson == {"{}", "{", "[]"}
\* json.loads: whether it returns, and the Python type of what it returns.
json_loads(text) ==
    IF text = "{}" THEN [ok |-> TRUE, type |-> "dict"]
    ELSE IF text = "[]" THEN [ok |-> TRUE, type |-> "list"]
    ELSE [ok |-> FALSE, type |-> "None"]

\* ----------------------------------------------------------- pure functions
build_oecd_urls(dataset_id, key_path) ==
    << <<dataset_id, key_path, "lastNObservations">>,
       <<dataset_id, key_path, "startPeriod">> >>

\* A digest is two blocks: its first 12 hex characters (the part the key embeds) and the rest.
sha256(data) == <<data.id, data.len>>
NoHash == <<>>
HashPrefix(h) == SubSeq(h, 1, 1)

maybe_compress(data, do_gzip) ==
    IF do_gzip
    THEN [body |-> [gzip |-> TRUE, data |-> data], ContentEncoding |-> "gzip"]
    ELSE [body |-> [gzip |-> FALSE, data |-> data], ContentEncoding |-> ""]

DateStr(t) == t \div (24 * 60 * 60)
TsStr(t) == t
Ext(fmt) == IF fmt = "csv" THEN "csv" ELSE "json"
S3KeyNoDigest(dataset_id, t, content_hash) ==
    <<S3_PREFIX, dataset_id, DateStr(t), dataset_id, TsStr(t), Ext(FORMAT)>>
S3Key(dataset_id, t, content_hash) ==
    <<S3_PREFIX, dataset_id, DateStr(t), dataset_id, TsStr(t),
      HashPrefix(content_hash), Ext(FORMAT)>>

IsTransientAny(resp) == TRUE
IsTransient(resp) ==
    \/ resp.kind = "URLError"
    \/ resp.kind = "HTTPError" /\ resp.code \in TransientCodes
Backoff(k) == BackoffBase * k
PlausibleOffByOne(blob) == ~(blob.len = 0 \/ blob.len < MinBody - 1)
Plausible(blob) == ~(blob.len = 0 \/ blob.len < MinBody)

\* Error summaries of fetch_oecd's err_acc.
ErrShort(u) == [type |-> "Empty/short response", code |-> 0, url |-> u]
ErrOf(resp) == [type |-> resp.kind, code |-> resp.code, url |-> <<>>]
NoErr == [type |-> "None", code |-> 0, url |-> <<>>]

\* Exceptions: str(e) is the message with its detail.
NoExc == [type |-> "None", msg |-> "", detail |-> <<>>]
FetchFailed(errs) ==
    [type |-> "RuntimeError", msg |-> "All OECD fetch attempts failed", detail |-> errs]
ServiceError(op) == [type |-> "ClientError", msg |-> op, detail |-> <<>>]
\* gzip running out of memory: str(MemoryError()) is the empty string.
CompressError == [type |-> "MemoryError", msg |-> "", detail |-> <<>>]
\* Line 166, and keys_map.get on a value that is not a dict.
ConfigError ==
    [type |-> "RuntimeError", msg |-> "OECD_KEYS_JSON must be valid JSON mapping",
     detail |-> <<>>]
AttributeError ==
    [type |-> "AttributeError", msg |-> "object has no attribute 'get'", detail |-> <<>>]
Str(e) == [msg |-> e.msg, detail |-> e.detail]
NoStr == [msg |-> "", detail |-> <<>>]

\* Result dicts: `has' is the set of keys the dict holds.
ResStored(ds, key, h, u) ==
    [has |-> {"stored", "s3_key", "hash", "url", "dataset"}, dataset |-> ds,
     stored |-> TRUE, reason |-> "", s3_key |-> key, hash |-> h, url |-> u,
     error |-> NoStr]
ResUnchanged(ds, h, u) ==
    [has |-> {"stored", "reason", "hash", "url", "dataset"}, dataset |-> ds,
     stored |-> FALSE, reason |-> "unchanged", s3_key |-> <<>>, hash |-> h,
     url |-> u, error |-> NoStr]
ResError(ds, e) ==
    [has |-> {"dataset", "error"}, dataset |-> ds, stored |-> FALSE,
     reason |-> "", s3_key |-> <<>>, hash |-> NoHash, url |-> <<>>,
     error |-> Str(e)]

\* r.get("stored"), r.get("reason") == "unchanged", r.get("error") as truth values.
GetStored(r) == "stored" \in r.has /\ r.stored
GetUnchanged(r) == "reason" \in r.has /\ r.reason = "unchanged"
GetError(r) == "error" \in r.has /\ r.error.msg # ""

IsOk(r) == GetStored(r) \/ GetUnchanged(r)
\* ok = [r for r in results if ...]; errs = [r for r in results if r.get("error")]
Ok(res) == SelectSeq(res, IsOk)
Errs(res) == SelectSeq(res, GetError)
StatusCode(res) == IF Errs(res) = <<>> THEN StatusOk ELSE StatusMulti
Report(res) ==
    [statusCode |-> StatusCode(res),
     summary |-> [stored |-> Len(SelectSeq(Ok(res), GetStored)),
                  unchanged |-> Len(SelectSeq(Ok(res), GetUnchanged)),
                  errors |-> Len(Errs(res))],
     results |-> res]

\* ------------------------------------------------------------------- state
VARIABLES
    now,            \* the UTC clock, in seconds
    DDB,            \* the ledger table: a set of items
    S3,             \* the bucket: a set of objects, one per key
    datasets,       \* OECD_DATASETS
    keys_json,      \* OECD_KEYS_JSON
    ddb_table,      \* whether DEDUPE_TABLE is set
    budget,         \* invocations each worker may still start
    http_codes,     \* environment: the error statuses the server answers with
    net_errors,     \* environment: whether requests fail without an HTTP answer
    inv,            \* each invocation's frame: its position and locals
    last_archived,  \* history: per dataset, the digest of the last object put
    last_recorded   \* history: per dataset, the digest last written to the ledger

config == <<datasets, keys_json, ddb_table, http_codes, net_errors>>
vars == <<now, DDB, S3, config, budget, inv, last_archived, last_recorded>>

NoItem == [dataset |-> "", last_hash |-> NoHash, last_url |-> <<>>, last_run |-> -1]
NoCalls == [get_item |-> 0, put_item |-> 0, put_object |-> 0]

\* The locals of one pass of lambda_handler's loop, before its fetch.
FreshIter(f, k) ==
    [f EXCEPT !.pc = "fetch", !.ds_i = k, !.url_i = 1, !.attempt = 1,
              !.last_err = NoErr, !.err_acc = <<>>, !.raw = NoBlob,
              !.url_used = <<>>, !.ts_str = -1, !.item = NoItem, !.exc = NoExc,
              !.gets = <<0, 0>>, !.delays = << <<>>, <<>> >>, !.calls = NoCalls]

\* History: what the previous run of this worker made of each dataset.
Outcomes(res) ==
    [k \in 1..Len(res) |-> [failed |-> "error" \in res[k].has, hash |-> res[k].hash]]
PrevRun(res) == [outcomes |-> Outcomes(res), statusCode |-> Report(res).statusCode]
NoPrev == [outcomes |-> <<>>, statusCode |-> 0]

IdleFrame ==
    [pc |-> "idle", ds_i |-> 0, results |-> <<>>, url_i |-> 1, attempt |-> 1,
     last_err |-> NoErr, err_acc |-> <<>>, raw |-> NoBlob, url_used |-> <<>>,
     ts_str |-> -1, item |-> NoItem, exc |-> NoExc, gets |-> <<0, 0>>,
     delays |-> << <<>>, <<>> >>, calls |-> NoCalls, prev |-> NoPrev]

Dataset(f) == datasets[f.ds_i]
Urls(f) == build_oecd_urls(Dataset(f), KeyPath(Dataset(f)))

\* An exception leaves lambda_handler: the invocation fails as a whole.
Raised(f, e) == [f EXCEPT !.pc = "raised", !.exc = e]
\* The loop is over: lambda_handler returns its report on f.results.
Return(f) == [FreshIter(f, 0) EXCEPT !.pc = "done"]

\* A pass of the loop begins with keys_map.get(ds, "all"), outside the try.
StartIter(f, k) ==
    IF json_loads(keys_json).type = "dict" THEN FreshIter(f, k)
    ELSE Raised(f, AttributeError)

CaughtAbort(f, e) ==
    [f EXCEPT !.pc = "done", !.exc = e,
              !.results = Append(@, ResError(datasets[f.ds_i], e))]
\* lambda_handler's except branch: the failure becomes the dataset's result.
Caught(f, e) ==
    [f EXCEPT !.pc = "end_iter", !.exc = e,
              !.results = Append(@, ResError(datasets[f.ds_i], e))]
\* put_if_new returned `out'.
Returned(f, out) ==
    [f EXCEPT !.pc = "end_iter", !.results = Append(@, out)]

\* --------------------------------------------------------------- fetching
NextUrlNoFallback(f) == Caught(f, FetchFailed(f.err_acc))
\* fetch_oecd's loop moves to the next candidate URL, or fails the dataset.
NextUrl(f) ==
    IF f.url_i < Len(Urls(f))
    THEN [f EXCEPT !.url_i = @ + 1, !.attempt = 1, !.last_err = NoErr]
    ELSE Caught(f, FetchFailed(f.err_acc))

EnterPutIfNewLedger(f, blob, url, t) ==
    [f EXCEPT !.raw = blob, !.url_used = url, !.ts_str = TsStr(t), !.pc = "get_item"]
\* Lines 92-99 of put_if_new: the digest is sha256(raw), the clock is read.
EnterPutIfNew(f, blob, url, t) ==
    [f EXCEPT !.raw = blob, !.url_used = url, !.ts_str = TsStr(t),
              !.pc = IF ddb_table THEN "get_item" ELSE "put_object"]

\* http_get's except branches for a failed attempt.
AfterFailureOneMore(f, resp) ==
    LET g == [f EXCEPT !.last_err = ErrOf(resp)]
    IN IF IsTransient(resp)
       THEN LET s == [g EXCEPT !.delays[g.url_i] = Append(@, Backoff(g.attempt))]
            IN IF s.attempt <= Retries
               THEN [s EXCEPT !.attempt = @ + 1]
               ELSE NextUrl([s EXCEPT !.err_acc = Append(@, s.last_err)])
       ELSE NextUrl([g EXCEPT !.err_acc = Append(@, g.last_err)])
AfterFailureEvery(f, resp) ==
    LET g == [f EXCEPT !.last_err = ErrOf(resp), !.err_acc = Append(@, ErrOf(resp))]
    IN IF IsTransient(resp)
       THEN LET s == [g EXCEPT !.delays[g.url_i] = Append(@, Backoff(g.attempt))]
            IN IF s.attempt < Retries THEN [s EXCEPT !.attempt = @ + 1] ELSE NextUrl(s)
       ELSE NextUrl(g)
\* http_get after a failed urlopen(): retry, or raise last_err to fetch_oecd.
AfterFailure(f, resp) ==
    LET g == [f EXCEPT !.last_err = ErrOf(resp)]
        raised == [g EXCEPT !.err_acc = Append(@, g.last_err)]
    IN IF IsTransient(resp)
       THEN LET s == [g EXCEPT !.delays[g.url_i] = Append(@, Backoff(g.attempt))]
            IN IF s.attempt < Retries
               THEN [s EXCEPT !.attempt = @ + 1]
               ELSE NextUrl([s EXCEPT !.err_acc = Append(@, s.last_err)])
       ELSE NextUrl(raised)

\* fetch_oecd on the body http_get returned.
AfterBody(f, blob, t) ==
    LET url == Urls(f)[f.url_i]
    IN IF ~Plausible(blob)
       THEN NextUrl([f EXCEPT !.err_acc = Append(@, ErrShort(url))])
       ELSE EnterPutIfNew(f, blob, url, t)

\* One urlopen() of http_get and what follows it without another call.
HttpStep(f, resp, t) ==
    LET g == [f EXCEPT !.gets[f.url_i] = @ + 1]
    IN IF resp.kind = "ok" THEN AfterBody(g, resp.body, t) ELSE AfterFailure(g, resp)

\* ------------------------------------------------------------- put_if_new
ItemsOf(ds) == {it \in DDB : it.dataset = ds}
get_item(ds) == IF ItemsOf(ds) = {} THEN NoItem ELSE CHOOSE it \in ItemsOf(ds) : TRUE
put_item(table, it) == {x \in table : x.dataset # it.dataset} \cup {it}
put_object(bucket, obj) == {x \in bucket : x.key # obj.key} \cup {obj}

IsDuplicateAnyItem(item, content_hash) == item # NoItem
IsDuplicate(item, content_hash) == item # NoItem /\ item.last_hash = content_hash

AfterGetItemSeen(f, item) ==
    LET g == [f EXCEPT !.item = item]
    IN IF \/ IsDuplicate(item, sha256(f.raw))
          \/ \E o \in S3 : o.key[2] = Dataset(f) /\ o.sha256 = sha256(f.raw)
       THEN Returned(g, ResUnchanged(Dataset(f), sha256(f.raw), f.url_used))
       ELSE [g EXCEPT !.pc = "put_item"]
AfterGetItemRefresh(f, item) == [f EXCEPT !.item = item, !.pc = "put_item"]
\* Lines 102-119: the ledger's answer decides dedup_ok.
AfterGetItem(f, item) ==
    LET g == [f EXCEPT !.item = item]
    IN IF IsDuplicate(item, sha256(f.raw))
       THEN Returned(g, ResUnchanged(Dataset(f), sha256(f.raw), f.url_used))
       ELSE [g EXCEPT !.pc = "put_item"]

LedgerItemShortHash(f) ==
    [dataset |-> Dataset(f), last_hash |-> HashPrefix(sha256(f.raw)),
     last_url |-> f.url_used, last_run |-> f.ts_str]
LedgerItem(f) ==
    [dataset |-> Dataset(f), last_hash |-> sha256(f.raw), last_url |-> f.url_used,
     last_run |-> f.ts_str]

ArchiveObject(f) ==
    LET c == maybe_compress(f.raw, GZIP)
    IN [key |-> S3Key(Dataset(f), f.ts_str, sha256(f.raw)), body |-> c.body,
        ContentType |-> IF FORMAT = "csv" THEN "text/csv" ELSE "application/json",
        ContentEncoding |-> c.ContentEncoding,
        oecd_source_url |-> f.url_used, sha256 |-> sha256(f.raw)]

\* ----------------------------------------------------------------- actions
Invoke(i) ==
    /\ inv[i].pc \in {"idle", "done", "raised"}
    /\ budget[i] > 0
    /\ budget' = [budget EXCEPT ![i] = @ - 1]
    /\ LET f == [IdleFrame EXCEPT !.prev = IF inv[i].pc = "done"
                                           THEN PrevRun(inv[i].results) ELSE NoPrev]
       IN inv' = [inv EXCEPT ![i] =
                    IF ~json_loads(keys_json).ok THEN Raised(f, ConfigError)
                    ELSE IF datasets = <<>> THEN Return(f)
                    ELSE StartIter(f, 1)]
    /\ UNCHANGED <<now, DDB, S3, config, last_archived, last_recorded>>

HttpGet(i) ==
    /\ inv[i].pc = "fetch"
    /\ \E resp \in Responses(http_codes, net_errors) : inv' = [inv EXCEPT ![i] = HttpStep(@, resp, now)]
    /\ UNCHANGED <<now, DDB, S3, config, budget, last_archived, last_recorded>>

GetItem(i) ==
    /\ inv[i].pc = "get_item"
    /\ LET f == [inv[i] EXCEPT !.calls.get_item = @ + 1]
       IN \E out \in ServiceOutcomes :
            inv' = [inv EXCEPT ![i] =
                      IF out = "ok" THEN AfterGetItem(f, get_item(Dataset(f)))
                      ELSE Caught(f, ServiceError("GetItem"))]
    /\ UNCHANGED <<now, DDB, S3, config, budget, last_archived, last_recorded>>

PutItem(i) ==
    /\ inv[i].pc = "put_item"
    /\ LET f == [inv[i] EXCEPT !.calls.put_item = @ + 1]
       IN \/ /\ DDB' = put_item(DDB, LedgerItem(f))
             /\ last_recorded' = [last_recorded EXCEPT ![Dataset(f)] = sha256(f.raw)]
             /\ inv' = [inv EXCEPT ![i] = [f EXCEPT !.pc = "put_object"]]
          \/ /\ inv' = [inv EXCEPT ![i] = Caught(f, ServiceError("PutItem"))]
             /\ UNCHANGED <<DDB, last_recorded>>
    /\ UNCHANGED <<now, S3, config, budget, last_archived>>

PutObject(i) ==
    /\ inv[i].pc = "put_object"
    /\ LET f == [inv[i] EXCEPT !.calls.put_object = @ + 1]
           obj == ArchiveObject(f)
       IN \/ /\ GZIP
             /\ inv' = [inv EXCEPT ![i] = Caught(inv[i], CompressError)]
             /\ UNCHANGED <<S3, last_archived>>
          \/ /\ S3' = put_object(S3, obj)
             /\ last_archived' = [last_archived EXCEPT ![Dataset(f)] = obj.sha256]
             /\ inv' = [inv EXCEPT ![i] =
                          Returned(f, ResStored(Dataset(f), obj.key, obj.sha256, f.url_used))]
          \/ /\ inv' = [inv EXCEPT ![i] = Caught(f, ServiceError("PutObject"))]
             /\ UNCHANGED <<S3, last_archived>>
    /\ UNCHANGED <<now, DDB, config, budget, last_recorded>>

\* The loop takes the next dataset, or lambda_handler returns its report.
EndIter(i) ==
    /\ inv[i].pc = "end_iter"
    /\ inv' = [inv EXCEPT ![i] =
                 IF @.ds_i < Len(datasets)
                 THEN StartIter(@, @.ds_i + 1)
                 ELSE Return(@)]
    /\ UNCHANGED <<now, DDB, S3, config, budget, last_archived, last_recorded>>

\* The clock moves on its own.  time.sleep is recorded in `delays' and does
\* not move it: the seconds of the model number the distinct timestamps that
\* put_if_new can read, and a sleep only bounds from below how far the clock
\* has moved by the next read.
Tick ==
    /\ now < MaxTime
    /\ now' = now + 1
    /\ UNCHANGED <<DDB, S3, config, budget, inv, last_archived, last_recorded>>

Next ==
    \/ \E i \in Invocations : Invoke(i)
    \/ \E i \in Invocations : HttpGet(i)
    \/ \E i \in Invocations : GetItem(i)
    \/ \E i \in Invocations : PutItem(i)
    \/ \E i \in Invocations : PutObject(i)
    \/ \E i \in Invocations : EndIter(i)
    \/ Tick

DatasetNames == {"HEALTH_STAT", "EO", "MEI"}

InitCommon ==
    /\ now = 0
    /\ DDB = {}
    /\ S3 = {}
    /\ inv = [i \in Invocations |-> IdleFrame]
    /\ last_archived = [d \in DatasetNames |-> NoHash]
    /\ last_recorded = [d \in DatasetNames |-> NoHash]

\* One scheduler: the runs on a dataset follow one another.
Init ==
    /\ InitCommon
    /\ datasets = <<"EO">>
    /\ keys_json = "{}"
    /\ ddb_table \in BOOLEAN
    /\ http_codes = {404, 503}
    /\ net_errors = TRUE
    /\ budget = [i \in Invocations |-> IF i = 1 THEN MaxRuns ELSE 0]

Spec == Init /\ [][Next]_vars

\* Overlapping schedules: two invocations run at once on one dataset.
InitConc ==
    /\ InitCommon
    /\ datasets = <<"EO">>
    /\ keys_json = "{}"
    /\ ddb_table = TRUE
    /\ http_codes = {404}
    /\ net_errors = FALSE
    /\ budget = [i \in Invocations |-> 1]

SpecConc == InitConc /\ [][Next]_vars

\* One run over the configured list of datasets.
InitBatch ==
    /\ InitCommon
    /\ datasets = <<"HEALTH_STAT", "EO", "MEI">>
    /\ keys_json = "{}"
    /\ ddb_table \in BOOLEAN
    /\ http_codes = {404}
    /\ net_errors = FALSE
    /\ budget = [i \in Invocations |-> IF i = 1 THEN 1 ELSE 0]

SpecBatch == InitBatch /\ [][Next]_vars

\* One run on one dataset, against every status the server may answer with.
InitFetch ==
    /\ InitCommon
    /\ datasets = <<"MEI">>
    /\ keys_json = "{}"
    /\ ddb_table \in BOOLEAN
    /\ http_codes = HttpCodes
    /\ net_errors = TRUE
    /\ budget = [i \in Invocations |-> IF i = 1 THEN 1 ELSE 0]

SpecFetch == InitFetch /\ [][Next]_vars

\* The interpreter goes on executing a started invocation, and every call it
\* waits on returns or raises (urlopen is given a timeout).
Step(i) == HttpGet(i) \/ GetItem(i) \/ PutItem(i) \/ PutObject(i) \/ EndIter(i)
SpecFetchFair == SpecFetch /\ \A i \in Invocations : WF_vars(Step(i))

\* Two runs in succession over two datasets.
InitTwice ==
    /\ InitCommon
    /\ datasets = <<"EO", "MEI">>
    /\ keys_json = "{}"
    /\ ddb_table \in BOOLEAN
    /\ http_codes = {404}
    /\ net_errors = FALSE
    /\ budget = [i \in Invocations |-> IF i = 1 THEN 1 + 1 ELSE 0]

SpecTwice == InitTwice /\ [][Next]_vars

\* Runs under every kind of OECD_KEYS_JSON, with and without datasets
\* (OECD_DATASETS="," is accepted and lists none).
InitConfig ==
    /\ InitCommon
    /\ datasets \in {<<>>, <<"EO">>}
    /\ keys_json \in KeysJson
    /\ ddb_table = TRUE
    /\ http_codes = {404}
    /\ net_errors = FALSE
    /\ budget = [i \in Invocations |-> IF i = 1 THEN 1 + 1 ELSE 0]

SpecConfig == InitConfig /\ [][Next]_vars

\* ------------------------------------------------------------------ claims
Frame(i) == inv[i]
Quiescent == \A i \in Invocations : inv[i].pc \in {"idle", "done", "raised"}
\* put_if_new was called in this pass of the loop, with the payload f.raw.
Called(f) == f.pc \in {"get_item", "put_item", "put_object", "end_iter"} /\ f.ts_str # -1
\* ... and has returned a result (it did not raise).
ReturnedFrom(f) == f.pc = "end_iter" /\ f.ts_str # -1 /\ f.exc = NoExc
LastResult(f) == f.results[Len(f.results)]
HeldDigest(f) == f.item # NoItem /\ f.item.last_hash = sha256(f.raw)
ObjectsOf(ds, h) == {o \in S3 : o.key[2] = ds /\ o.sha256 = h}

\* C1: with the ledger enabled, a call of put_if_new that returns makes no
\* put-object call when the ledger entry it read holds the payload's digest,
\* and otherwise makes exactly one, stores the object and leaves the ledger
\* entry of the dataset holding the payload's digest.  No call of put_if_new
\* makes more than one put-object call.
NoveltyDetection ==
    \A i \in Invocations :
        LET f == inv[i]
        IN /\ f.calls.put_object <= 1
           /\ (ddb_table /\ f.pc = "end_iter" /\ f.calls.get_item = 1 /\ HeldDigest(f))
                => /\ f.calls.put_object = 0
                   /\ f.exc = NoExc
                   /\ ~LastResult(f).stored
           /\ (ddb_table /\ ReturnedFrom(f) /\ ~HeldDigest(f))
                => /\ f.calls.get_item = 1
                   /\ f.calls.put_object = 1
                   /\ LastResult(f).stored
                   /\ ObjectsOf(Dataset(f), sha256(f.raw)) # {}
                   /\ get_item(Dataset(f)).last_hash = sha256(f.raw)

\* A run finds another digest in the ledger and archives the new payload.
NoveltyWitness ==
    \E i \in Invocations :
        /\ ddb_table
        /\ ReturnedFrom(inv[i])
        /\ inv[i].item # NoItem
        /\ inv[i].item.last_hash # sha256(inv[i].raw)
        /\ inv[i].calls.put_object = 1

\* C2: whenever no invocation is running, each dataset has at most one ledger
\* entry and its last_hash is the digest of the payload last archived for it.
LedgerMatchesArchive ==
    Quiescent =>
        \A ds \in DatasetNames :
            /\ Cardinality(ItemsOf(ds)) <= 1
            /\ ItemsOf(ds) # {} => get_item(ds).last_hash = last_archived[ds]

\* C3: the ledger entry of a dataset is only ever overwritten with the digest
\* of a payload that is already archived.
ArchiveBeforeRecord ==
    [][\A it \in DDB' \ DDB : ObjectsOf(it.dataset, it.last_hash) # {}]_vars

\* C4 as stated, for either configuration of the ledger: a run that fetches,
\* for every dataset, the payload the previous run fetched reports every
\* dataset unchanged.
RerunUnchanged ==
    \A i \in Invocations :
        LET f == inv[i]
            Same(k) == /\ ~f.prev.outcomes[k].failed
                       /\ "error" \notin f.results[k].has
                       /\ f.results[k].hash = f.prev.outcomes[k].hash
        IN (f.pc = "done" /\ f.prev.outcomes # <<>> /\ \A k \in 1..Len(datasets) : Same(k))
             => \A k \in 1..Len(datasets) : GetUnchanged(f.results[k])

\* C4, amended: with the ledger enabled, a dataset for which a run fetches
\* the payload the previous run fetched, neither run ending in an error for
\* it, is reported stored=false / unchanged, and no put-object call is made
\* for it.
IdempotentRerun ==
    \A i \in Invocations :
        LET f == inv[i]
            Same(k) == /\ ~f.prev.outcomes[k].failed
                       /\ "error" \notin f.results[k].has
                       /\ f.results[k].hash = f.prev.outcomes[k].hash
        IN ddb_table /\ f.prev.outcomes # <<>> =>
             /\ (f.pc = "end_iter" /\ Same(f.ds_i))
                  => /\ f.calls.put_object = 0
                     /\ GetUnchanged(LastResult(f))
                     /\ ~GetStored(LastResult(f))
             /\ f.pc = "done" =>
                  \A k \in 1..Len(datasets) :
                      Same(k) => GetUnchanged(f.results[k]) /\ ~GetStored(f.results[k])

\* A second run that found every dataset as the first run left it.
IdempotentWitness ==
    \E i \in Invocations :
        /\ ddb_table
        /\ inv[i].pc = "done"
        /\ inv[i].prev.outcomes # <<>>
        /\ \A k \in 1..Len(datasets) :
             /\ ~inv[i].prev.outcomes[k].failed
             /\ inv[i].results[k].hash = inv[i].prev.outcomes[k].hash
             /\ GetUnchanged(inv[i].results[k])

\* C5: two invocations that race on one dataset with the same new payload do
\* not both archive it.
ArchivedOnceUnderRace ==
    \A i, j \in Invocations :
        (/\ i # j
         /\ inv[i].results # <<>> /\ inv[j].results # <<>>
         /\ inv[i].results[1].hash = inv[j].results[1].hash)
          => ~(GetStored(inv[i].results[1]) /\ GetStored(inv[j].results[1]))

\* C6: the report holds one result per configured dataset, in configured
\* order; a dataset whose processing raised has the result {dataset, error},
\* every other dataset the result put_if_new returned; the loop goes on after
\* a failure.
FailureIsolation ==
    \A i \in Invocations :
        LET f == inv[i]
        IN /\ f.pc \in {"fetch", "get_item", "put_item", "put_object"}
                => Len(f.results) = f.ds_i - 1
           /\ f.pc = "end_iter" =>
                /\ Len(f.results) = f.ds_i
                /\ LastResult(f).dataset = datasets[f.ds_i]
                /\ f.exc # NoExc =>
                     /\ LastResult(f).has = {"dataset", "error"}
                     /\ LastResult(f).error = Str(f.exc)
                /\ f.exc = NoExc =>
                     /\ f.ts_str # -1
                     /\ "error" \notin LastResult(f).has
                     /\ GetStored(LastResult(f)) # GetUnchanged(LastResult(f))
           /\ f.pc = "done" =>
                /\ Len(f.results) = Len(datasets)
                /\ Len(Report(f.results).results) = Len(datasets)
                /\ \A k \in 1..Len(datasets) :
                     /\ f.results[k].dataset = datasets[k]
                     /\ \/ f.results[k].has = {"dataset", "error"}
                        \/ GetStored(f.results[k]) # GetUnchanged(f.results[k])

\* The first dataset failed, the second was still processed, the third failed.
IsolationWitness ==
    \E i \in Invocations :
        /\ inv[i].pc = "done"
        /\ Len(inv[i].results) = 3
        /\ "error" \in inv[i].results[1].has
        /\ GetStored(inv[i].results[2])
        /\ "error" \in inv[i].results[3].has

\* C7: the status of a report with failed and processed datasets differs
\* from the status of a report where all were processed and from the status
\* of a report where all failed.
Class(outcomes) ==
    IF \A k \in 1..Len(outcomes) : outcomes[k].failed THEN "failure"
    ELSE IF \A k \in 1..Len(outcomes) : ~outcomes[k].failed THEN "success"
    ELSE "partial"
StatusDistinguishes ==
    \A i \in Invocations :
        LET f == inv[i]
        IN (/\ f.pc = "done" /\ f.prev.outcomes # <<>>
            /\ Class(Outcomes(f.results)) = "partial"
            /\ Class(f.prev.outcomes) # "partial")
             => Report(f.results).statusCode # f.prev.statusCode

\* The place of a candidate URL, by its query parameter, in fetch_oecd's list.
UrlIndex(f, query) == CHOOSE k \in 1..Len(Urls(f)) : Urls(f)[k][3] = query

\* C8: the startPeriod URL is requested only once the lastNObservations URL
\* has failed; a failure of the latter, of any kind, is followed by a request
\* of the former before the dataset fails; a plausible payload from the
\* lastNObservations URL means the startPeriod URL is never requested.
FallbackOrder ==
    \A i \in Invocations :
        LET f == inv[i]
        IN f.ds_i > 0 =>
             LET a == UrlIndex(f, "lastNObservations")
                 b == UrlIndex(f, "startPeriod")
             IN /\ f.gets[b] > 0 =>
                     /\ f.gets[a] > 0
                     /\ Len(f.err_acc) >= 1
                     /\ f.url_used # Urls(f)[a]
                /\ (f.pc = "fetch" /\ f.gets[a] > 0 /\ Len(f.err_acc) >= 1)
                     => f.url_i = b
                /\ (f.pc = "end_iter" /\ f.exc.type = "RuntimeError")
                     => f.gets[b] >= 1 /\ Len(f.err_acc) = 2
                /\ f.url_used = Urls(f)[a] => f.gets[b] = 0
                /\ (f.pc = "fetch" /\ f.gets[a] = 0) => f.url_i = a

\* The lastNObservations URL answered 404 and the startPeriod URL delivered.
FallbackWitness ==
    \E i \in Invocations :
        /\ inv[i].pc = "end_iter"
        /\ Len(inv[i].err_acc) = 1
        /\ inv[i].err_acc[1].code = 404
        /\ inv[i].url_used = Urls(inv[i])[2]
        /\ inv[i].url_used[3] = "startPeriod"

\* C9: one step of http_get is one GET, and no URL gets more than Retries of
\* them; the same URL is requested again only after a transient failure
\* (429/500/502/503/504 or a non-HTTP error) and a transient failure before
\* the last attempt is retried; a non-transient HTTP error, a response, and
\* the last attempt end the loop for the URL, the first two with no delay.
TransientError(e) ==
    \/ e.type = "URLError"
    \/ e.type = "HTTPError" /\ e.code \in {429, 500, 502, 503, 504}
RetryPolicy ==
    [][\A i \in Invocations :
        LET f == inv[i]
            g == inv'[i]
            k == f.url_i
            again == g.pc = "fetch" /\ g.url_i = k
            left == Len(g.err_acc) > Len(f.err_acc)
            failure == IF left THEN g.err_acc[Len(g.err_acc)]
                       ELSE IF again THEN g.last_err ELSE NoErr
        IN (f.pc = "fetch" /\ g # f) =>
             /\ g.gets[k] = f.gets[k] + 1
             /\ g.gets[k] <= Retries
             /\ again => /\ TransientError(g.last_err)
                         /\ g.attempt = f.attempt + 1
                         /\ g.gets[k] < Retries
             /\ (TransientError(failure) /\ f.gets[k] + 1 < Retries) => again
             /\ (TransientError(failure) /\ f.gets[k] + 1 = Retries) => ~again
             /\ (failure.type = "HTTPError" /\ ~TransientError(failure))
                  => ~again /\ g.delays = f.delays
             /\ failure.type = "Empty/short response" => ~again /\ g.delays = f.delays
             /\ failure = NoErr => /\ g.pc # "fetch"
                                   /\ g.raw # NoBlob
                                   /\ g.delays = f.delays
      ]_vars

\* Two transient failures were retried and a 404 on the third GET ended the loop.
RetryWitness ==
    \E i \in Invocations :
        /\ inv[i].gets[1] = Retries
        /\ Len(inv[i].delays[1]) = 2
        /\ Len(inv[i].err_acc) >= 1
        /\ inv[i].err_acc[1].code = 404

\* C10: with no ledger table configured no ledger call is made, and a call
\* of put_if_new makes one put-object call and returns stored=true with the
\* object in the bucket, whatever an earlier run archived; it ends otherwise
\* only when compression or the put-object call itself raises.
DisabledLedgerArchives ==
    \A i \in Invocations :
        LET f == inv[i]
        IN ~ddb_table =>
             /\ f.calls.get_item = 0 /\ f.calls.put_item = 0
             /\ DDB = {}
             /\ Called(f) => f.pc \in {"put_object", "end_iter"}
             /\ (Called(f) /\ f.pc = "end_iter") =>
                  \/ /\ f.exc = NoExc
                     /\ f.calls.put_object = 1
                     /\ GetStored(LastResult(f))
                     /\ LastResult(f).hash = sha256(f.raw)
                     /\ ObjectsOf(Dataset(f), sha256(f.raw)) # {}
                  \/ f.exc = CompressError /\ f.calls.put_object = 0
                  \/ f.exc = ServiceError("PutObject") /\ f.calls.put_object = 1

\* A payload byte-identical to the one the previous run archived is archived again.
DisabledLedgerWitness ==
    \E i \in Invocations :
        /\ ~ddb_table
        /\ ReturnedFrom(inv[i])
        /\ inv[i].prev.outcomes # <<>>
        /\ inv[i].prev.outcomes[1].hash = sha256(inv[i].raw)
        /\ GetStored(LastResult(inv[i]))

\* C11: a put-object call that succeeds never targets a key that already
\* holds an object.
NeverOverwritten ==
    [][\A i \in Invocations :
         (/\ inv[i].pc = "put_object"
          /\ inv'[i].pc = "end_iter"
          /\ GetStored(LastResult(inv'[i])))
           => \A o \in S3 : o.key # LastResult(inv'[i]).s3_key]_vars

\* C12: the key of an object about to be archived has the form
\* prefix/dataset/date/dataset_timestamp_digestPrefix.ext, and it differs from
\* the key of every archived object of another dataset and of every archived
\* object of the same dataset whose digest has another 12-character prefix,
\* the objects archived in the same second included.
KeyUniqueness ==
    \A i \in Invocations :
        inv[i].pc = "put_object" =>
            LET f == inv[i]
                h == sha256(f.raw)
                key == ArchiveObject(f).key
            IN /\ key = <<"oecd/raw", Dataset(f), f.ts_str \div 86400, Dataset(f),
                          f.ts_str, SubSeq(h, 1, 1), "csv">>
               /\ \A o \in S3 :
                    (o.oecd_source_url[1] # Dataset(f)
                       \/ SubSeq(o.sha256, 1, 1) # SubSeq(h, 1, 1))
                      => o.key # key

\* A payload is about to be archived in the second in which another payload
\* of the same dataset and a payload of another dataset were archived.
KeyUniquenessWitness ==
    \E i \in Invocations :
        /\ inv[i].pc = "put_object"
        /\ \E o \in S3 : /\ o.oecd_source_url[1] = Dataset(inv[i])
                         /\ o.key[5] = inv[i].ts_str
                         /\ SubSeq(o.sha256, 1, 1) # SubSeq(sha256(inv[i].raw), 1, 1)
        /\ \E o \in S3 : /\ o.oecd_source_url[1] # Dataset(inv[i])
                         /\ o.key[5] = inv[i].ts_str

\* fetch_oecd raised for the dataset of this pass of the loop.
FetchExhausted(f) == f.pc = "end_iter" /\ f.exc.type = "RuntimeError"

\* C13: once the fetch of a dataset is over, it has failed exactly when no
\* candidate URL gave a plausible payload, that is when every candidate URL
\* failed.  The failure then carries one error summary per candidate URL, in
\* candidate order (the summary of a short body names its URL; the transient
\* errors that were retried on a URL are not among them), and the dataset
\* caused no ledger read, no ledger write and no archive write.
FetchExhaustion ==
    \A i \in Invocations :
        LET f == inv[i]
        IN (f.ds_i > 0 /\ f.pc # "fetch") =>
             /\ FetchExhausted(f) <=> f.raw = NoBlob
             /\ FetchExhausted(f) <=> Len(f.err_acc) = Len(Urls(f))
             /\ FetchExhausted(f) =>
                  /\ f.exc.detail = f.err_acc
                  /\ Len(f.exc.detail) = 2
                  /\ \A k \in 1..2 :
                       /\ f.gets[k] \in 1..3
                       /\ f.exc.detail[k].type = "Empty/short response"
                            => f.exc.detail[k].url = Urls(f)[k]
                       /\ f.exc.detail[k].type # "Empty/short response"
                            => f.exc.detail[k].url = <<>>
                       /\ f.exc.detail[k].type
                            \in {"Empty/short response", "HTTPError", "URLError"}
                       /\ Len(f.delays[k]) >= f.gets[k] - 1
                  /\ LastResult(f) = ResError(Dataset(f), f.exc)
                  /\ f.calls = NoCalls
                  /\ f.ts_str = -1
                  /\ DDB = {} /\ S3 = {}

\* Both candidate URLs were tried three times and the fetch failed.
FetchExhaustionWitness ==
    \E i \in Invocations :
        /\ FetchExhausted(inv[i])
        /\ inv[i].gets = <<3, 3>>

\* C14: when OECD_KEYS_JSON is not a JSON object (text that is not JSON, or
\* JSON of another type), no invocation returns a report, requests a URL,
\* calls the ledger or writes to the archive.
ConfigErrorsFatal ==
    keys_json # "{}" =>
        /\ \A i \in Invocations :
             /\ inv[i].pc \in {"idle", "raised"}
             /\ inv[i].results = <<>>
             /\ inv[i].gets = <<0, 0>>
             /\ inv[i].calls = NoCalls
        /\ DDB = {}
        /\ S3 = {}

\* C15: with a valid configuration an invocation never raises; within one
\* pass of the loop it makes at most 3 GETs per candidate URL, 6 in all, and
\* at most one get_item, one put_item and one put_object call; and every
\* invocation that has started reaches its return.
TerminatesWithinBounds ==
    /\ [](\A i \in Invocations :
            /\ inv[i].pc # "raised"
            /\ inv[i].gets[1] <= 3 /\ inv[i].gets[2] <= 3
            /\ inv[i].gets[1] + inv[i].gets[2] <= 6
            /\ inv[i].calls.get_item <= 1
            /\ inv[i].calls.put_item <= 1
            /\ inv[i].calls.put_object <= 1)
    /\ \A i \in Invocations : (inv[i].pc # "idle") ~> (inv[i].pc = "done")

\* A pass of the loop spent all six GETs.
TerminatesWitness ==
    \E i \in Invocations :
        inv[i].gets[1] + inv[i].gets[2] = 6

\* C16: a step of a call for a dataset whose ledger entry holds the digest of
\* the fetched payload writes nothing to the ledger (the entry keeps its
\* last_hash, last_url and last_run, also when the payload came from another
\* candidate URL or at another time), and no step of a call for a dataset
\* changes the entry of another dataset.
LedgerUntouched ==
    [][\A i \in Invocations :
         LET f == inv[i]
             g == inv'[i]
         IN (f.ds_i > 0 /\ g # f) =>
              /\ \A d \in DatasetNames \ {Dataset(f)} :
                   {it \in DDB' : it.dataset = d} = {it \in DDB : it.dataset = d}
              /\ (\/ f.pc = "get_item" /\ get_item(Dataset(f)) # NoItem
                       /\ get_item(Dataset(f)).last_hash = sha256(f.raw)
                  \/ HeldDigest(f))
                   => /\ DDB' = DDB
                      /\ g.calls.put_item = 0
                      /\ g.pc # "put_item"]_vars

\* A run reports unchanged for a payload it fetched from another URL and at
\* another second than the recorded ones, while the ledger also holds the
\* entry of another dataset.
LedgerUntouchedWitness ==
    \E i \in Invocations :
        LET f == inv[i]
        IN /\ f.pc = "end_iter"
           /\ GetUnchanged(LastResult(f))
           /\ f.url_used # f.item.last_url
           /\ f.ts_str # f.item.last_run
           /\ get_item(Dataset(f)) = f.item
           /\ \E it \in DDB : it.dataset # Dataset(f)

\* C17: a GET is made only while the dataset has no fetched payload; the
\* payload a GET yields has at least 32 bytes and is held with the URL that
\* was requested; a body recorded as empty/short is a failure of the URL that
\* was requested, which is not requested again: the next candidate URL is
\* the one to request, or the fetch of the dataset has failed.
PlausibilityCheck ==
    [][\A i \in Invocations :
         LET f == inv[i]
             g == inv'[i]
             k == f.url_i
             short == /\ Len(g.err_acc) > Len(f.err_acc)
                      /\ g.err_acc[Len(g.err_acc)].type = "Empty/short response"
         IN (f.pc = "fetch" /\ g # f) =>
              /\ f.raw = NoBlob
              /\ g.raw # NoBlob =>
                   /\ g.raw.len >= 32
                   /\ g.url_used = Urls(f)[k]
                   /\ g.ds_i = f.ds_i
                   /\ g.pc # "fetch"
                   /\ g.err_acc = f.err_acc
              /\ short =>
                   /\ g.raw = NoBlob
                   /\ g.err_acc[Len(g.err_acc)].url = Urls(f)[k]
                   /\ g.gets[k] = f.gets[k] + 1
                   /\ ~(g.pc = "fetch" /\ g.url_i = k)
                   /\ k < 2 => g.pc = "fetch" /\ g.url_i = k + 1 /\ g.gets[k + 1] = 0
                   /\ k = 2 => FetchExhausted(g)]_vars

\* The first URL answered with a short body on its only GET, and the second
\* URL gave a payload of exactly 32 bytes.
PlausibilityWitness ==
    \E i \in Invocations :
        /\ inv[i].raw # NoBlob
        /\ inv[i].raw.len = 32
        /\ inv[i].url_used = Urls(inv[i])[2]
        /\ inv[i].gets = <<1, 1>>
        /\ inv[i].err_acc[1].type = "Empty/short response"

\* C18: with the ledger enabled and runs that follow one another, a call of
\* put_if_new that returns reports stored=true, after one put-object call,
\* when the dataset has no ledger entry and when the previous run yielded
\* another payload for the dataset, also if the archive already holds the
\* payload from an earlier run; and it reports unchanged only for the payload
\* whose digest was the last one recorded in the ledger for the dataset,
\* which is the payload of the previous run whenever that run did not fail.
LastValueOnly ==
    \A i \in Invocations :
        LET f == inv[i]
            h == sha256(f.raw)
            before == f.prev.outcomes
        IN (ddb_table /\ ReturnedFrom(f)) =>
             /\ (\/ f.item = NoItem
                 \/ before # <<>> /\ ~before[f.ds_i].failed /\ before[f.ds_i].hash # h)
                  => /\ GetStored(LastResult(f))
                     /\ f.calls.put_object = 1
                     /\ LastResult(f).hash = h
                     /\ \E o \in S3 : o.key = LastResult(f).s3_key /\ o.sha256 = h
             /\ GetUnchanged(LastResult(f)) =>
                  /\ LastResult(f).hash = h
                  /\ h = last_recorded[Dataset(f)]
                  /\ before # <<>>
                  /\ ~before[f.ds_i].failed => before[f.ds_i].hash = h

\* P1, P2, P1: the archive holds P1 from an earlier second and P2, the
\* previous run yielded P2, and this run has stored P1 again.
LastValueWitness ==
    \E i \in Invocations :
        LET f == inv[i]
        IN /\ ddb_table
           /\ ReturnedFrom(f)
           /\ GetStored(LastResult(f))
           /\ f.prev.outcomes # <<>>
           /\ ~f.prev.outcomes[1].failed
           /\ f.prev.outcomes[1].hash # sha256(f.raw)
           /\ \E o \in S3 : o.sha256 = f.prev.outcomes[1].hash
           /\ \E o \in S3 : /\ o.sha256 = sha256(f.raw)
                            /\ o.key # LastResult(f).s3_key

\* C19: the k-th delay taken on a URL is k x 2 seconds, and a delay is taken
\* only before a retry: once the requests of a URL are over, it has had
\* fewer delays than GETs, so none after its last GET, whether that GET
\* succeeded, failed for good or was the final attempt.
LinearBackoff ==
    \A i \in Invocations :
        \A k \in 1..2 :
            LET f == inv[i]
                over == f.pc # "fetch" \/ f.url_i > k
            IN /\ \A j \in 1..Len(f.delays[k]) : f.delays[k][j] = j * 2
               /\ Len(f.delays[k]) <= f.gets[k]
               /\ (over /\ f.gets[k] > 0) => Len(f.delays[k]) < f.gets[k]

\* C20: in the report of a finished invocation the stored, unchanged and
\* errors counts add up to the number of configured datasets, every result
\* is counted in exactly one of them, and the status is the success code
\* exactly when no dataset's processing raised, whatever the message of the
\* failure.
ReportAccounting ==
    \A i \in Invocations :
        inv[i].pc = "done" =>
            LET res == inv[i].results
                r == Report(res)
                raised == {k \in 1..Len(res) : "error" \in res[k].has}
                stored == {k \in 1..Len(res) : GetStored(res[k])}
                unchanged == {k \in 1..Len(res) : GetUnchanged(res[k])}
            IN /\ r.summary.stored + r.summary.unchanged + r.summary.errors
                    = Len(datasets)
               /\ r.summary.stored = Cardinality(stored)
               /\ r.summary.unchanged = Cardinality(unchanged)
               /\ r.summary.errors = Cardinality(raised)
               /\ stored \cap unchanged = {}
               /\ stored \cap raised = {}
               /\ unchanged \cap raised = {}
               /\ r.statusCode = 200 <=> raised = {}

====
